---- MODULE Spec2Model ----
(***************************************************************************)
(* A model of spx, a TLS-terminating reverse proxy: the two accept loops,  *)
(* the per-connection tasks, the certificate refresh task and the shared   *)
(* TLS acceptor cell of src/server.rs, the request handler and the         *)
(* outbound connector of src/proxy.rs.                                     *)
(***************************************************************************)
EXTENDS Integers, Sequences, FiniteSets, TLC

(* ------------------------------ bounds -------------------------------- *)

\* connections accepted over both listeners
MaxConns == 2
\* accept errors injected per listener
MaxAcceptErrors == 2
\* times the operator rewrites the certificate files while the server runs
MaxFileWrites == 1
\* distinct certificate generations that may be on disk
MaxGen == 2

(* -------------------------- program constants ------------------------- *)

\* server.rs:89  time::timeout(Duration::from_millis(200), accept)
HandshakeTimeoutMs == 200
\* server.rs:175 time::sleep(Duration::from_secs(1))
AcceptBackoffMs == 1000

\* server.rs:156-157 the ALPN protocols pushed onto the server config
AlpnProtocols == <<"h2", "http/1.1">>

Listeners == {"http", "https"}

(* ------------------------- the files on disk -------------------------- *)

\* What std::fs::read and rustls_pemfile make of the chain file.
ChainStates ==
    {[kind |-> "missing", gen |-> 0], [kind |-> "malformed", gen |-> 0]}
        \cup {[kind |-> "certs", gen |-> g] : g \in 1..MaxGen}

\* What std::fs::read, rustls_pemfile::read_one and with_single_cert make of
\* the key file: unreadable, not PEM, no item, an item that is no RSA/PKCS8
\* key, or a key whose bytes rustls accepts (valid) or refuses.
KeyStates ==
    {[kind |-> k, gen |-> 0, valid |-> FALSE] : k \in {"missing", "malformed", "empty", "ec"}}
        \cup {[kind |-> k, gen |-> g, valid |-> TRUE] : k \in {"rsa", "pkcs8"}, g \in 1..MaxGen}
        \cup {[kind |-> "pkcs8", gen |-> 1, valid |-> FALSE]}

NoAcceptor == [certs |-> 0, key |-> 0, alpn |-> <<>>]

\* The file pairs the operator may leave on disk: a matching chain and key of
\* one generation, or one of the ways a load can fail.
DiskStates ==
    {<<[kind |-> "certs", gen |-> g],
       [kind |-> IF g = 1 THEN "rsa" ELSE "pkcs8", gen |-> g, valid |-> TRUE]>> : g \in 1..MaxGen}
    \cup {<<c, [kind |-> "pkcs8", gen |-> 1, valid |-> TRUE]>> :
            c \in {[kind |-> "missing", gen |-> 0], [kind |-> "malformed", gen |-> 0]}}
    \cup {<<[kind |-> "certs", gen |-> 1], k>> :
            k \in {x \in KeyStates : x.kind \notin {"rsa", "pkcs8"} \/ ~x.valid}}

\* tls_config: the blocking closure that reads and parses both files, then
\* the rustls builder; the error is the context string of the failing step.
tls_config(chain, key) ==
    IF chain.kind = "missing" THEN [ok |-> FALSE, err |-> "failed to open chain file", config |-> NoAcceptor]
    ELSE IF key.kind = "missing" THEN [ok |-> FALSE, err |-> "failed to open key file", config |-> NoAcceptor]
    ELSE IF chain.kind = "malformed"
        THEN [ok |-> FALSE, err |-> "failed to extract certificates from chain PEM file", config |-> NoAcceptor]
    ELSE IF key.kind = "malformed"
        THEN [ok |-> FALSE, err |-> "failed to extract TLS private key from PEM file", config |-> NoAcceptor]
    ELSE IF key.kind \notin {"rsa", "pkcs8"}
        THEN [ok |-> FALSE, err |-> "no private key found in PEM file", config |-> NoAcceptor]
    ELSE IF ~key.valid THEN [ok |-> FALSE, err |-> "TLS private key is invalid", config |-> NoAcceptor]
    ELSE [ok |-> TRUE, err |-> "",
          config |-> [certs |-> chain.gen, key |-> key.gen, alpn |-> AlpnProtocols]]

\* A load that skips the builder's check of the key.
acceptor_unchecked_key(chain, key) ==
    IF chain.kind = "certs" /\ key.kind \in {"rsa", "pkcs8"}
        THEN [ok |-> TRUE, err |-> "",
              config |-> [certs |-> chain.gen, key |-> key.gen, alpn |-> AlpnProtocols]]
        ELSE tls_config(chain, key)

\* acceptor: tls_config wrapped into a TlsAcceptor.
acceptor(chain, key) == tls_config(chain, key)

(* ----------------------------- the proxy ------------------------------ *)

\* Strings the routing rule inspects are sequences of characters.
BaseDomain == <<"e", ".", "c">>

Hosts ==
    { <<"w", ".", "r", ".", "e", ".", "c">>,   \* w.r.e.c : upstream w.r
      <<"e", ".", "c">>,                       \* the bare base domain
      <<"x", "e", ".", "c">>,                  \* xe.c    : no dot before the base domain
      <<"v", ".", "c">> }                      \* an unrelated domain

UserAgents == {"curl", "badbot"}

\* The configured deny_user_agents regex, as the set of agents it matches.
DenyUserAgents == {"badbot"}

Requests ==
    {r \in [host : Hosts, ua : UserAgents] :
        r.ua = "badbot" => r.host \in {<<"w", ".", "r", ".", "e", ".", "c">>, <<"v", ".", "c">>}}

NoRequest == [host |-> <<>>, ua |-> ""]

\* Proxy::call: the body is todo!(), which panics on every request; no
\* response is produced, no upstream is chosen, the connector is not called.
ProxyCall(req) ==
    [panicked |-> TRUE, response |-> "none", upstream |-> <<>>, connectorCalls |-> 0]

(* ---------------------------- the connector -------------------------- *)

\* resolved addresses a lookup may return
MaxAddrs == 3

IPs == {"A", "B", "C"}

\* The parts of a Uri the connector reads: host ("" when the Uri has none),
\* port (<<>> when the Uri has none, else <<p>>) and scheme ("" when it has none).
Uris == [host : {"", "up"}, port : {<<>>, <<0>>, <<8080>>}, scheme : {"", "http", "https", "wss"}]

NoResult == [kind |-> "none", ip |-> "", port |-> 0]

ConnectorIdle ==
    [pc |-> "idle", uri |-> [host |-> "", port |-> <<>>, scheme |-> ""], host |-> "",
     port |-> 0, resolves |-> 0, lookup |-> "none", resolved |-> <<>>, addresses |-> <<>>,
     attempts |-> <<>>, result |-> NoResult]

\* A host that falls back to the local machine when the Uri has none.
uri_host_or_localhost(uri) == IF uri.host = "" THEN <<"localhost">> ELSE <<uri.host>>

\* uri.host(): None for a Uri without a host.
uri_host(uri) == IF uri.host = "" THEN <<>> ELSE <<uri.host>>

\* A port chosen by the scheme before the Uri's own port is looked at.
connector_port_scheme_first(uri) ==
    IF uri.scheme = "https" THEN 443
    ELSE IF uri.port # <<>> THEN uri.port[1]
    ELSE 80

\* uri.port_u16().unwrap_or_else(|| match uri.scheme_str() { Some("https") => 443, _ => 80 })
connector_port(uri) ==
    IF uri.port # <<>> THEN uri.port[1]
    ELSE IF uri.scheme = "https" THEN 443
    ELSE 80

\* A lookup that is tried again when it fails.
resolve_failed_retries(c) == [c EXCEPT !.resolves = @ + 1]

\* .map_err(ConnectorError::Dns)?: the error of the lookup ends the call.
resolve_failed(c) ==
    [c EXCEPT !.pc = "done", !.resolves = @ + 1, !.result = [NoResult EXCEPT !.kind = "Dns"]]

\* .map(|ip| SocketAddr::new(ip, port)).collect()
socket_addrs(ips, port) == [k \in 1..Len(ips) |-> [ip |-> ips[k], port |-> port]]

\* Attempts that walk the addresses from the last to the first.
attempt_target_reversed(addresses, k) == addresses[Len(addresses) - k + 1]

\* TcpStream::connect(&*addresses): the address the k-th attempt goes to.
attempt_target(addresses, k) == addresses[k]

\* TcpStream::connect(&*addresses): whether the loop goes on after an attempt.
connect_continues(ok) == ~ok

(* ------------------------ the configuration file ---------------------- *)

\* edits the operator makes to config.toml between init and serve
MaxConfigEdits == 1

\* A TOML value: an integer, a string, an array of strings, or a string that
\* holds a regex (its text cut into tokens).
NoValue == [type |-> "none", int |-> 0, str |-> "", seq |-> <<>>]
IntValue(n) == [NoValue EXCEPT !.type = "int", !.int = n]
StrValue(v) == [NoValue EXCEPT !.type = "str", !.str = v]
ArrayValue(q) == [NoValue EXCEPT !.type = "array", !.seq = q]
PatternValue(q) == [NoValue EXCEPT !.type = "str", !.str = "pattern", !.seq = q]

\* The lines of a TOML text: comments, blank lines, table headers, key = value.
CommentLine == [kind |-> "comment", key |-> "", val |-> NoValue]
BlankLine == [kind |-> "blank", key |-> "", val |-> NoValue]
TableLine(t) == [kind |-> "table", key |-> t, val |-> NoValue]
KeyLine(k, v) == [kind |-> "kv", key |-> k, val |-> v]

\* The text of deny_user_agents in INITIAL_CONFIG: "(?x)", runs of white
\* space, "|", and the literals between them.
DefaultDenyUserAgents ==
    <<"(?x)", " ", "google", "|", "bing", "|", "yandex", "|", "msnbot", " ", "|", "AltaVista",
      "|", "Googlebot", "|", "Slurp", "|", "BlackWidow", "|", "Bot", "|", "ChinaClaw", "|",
      "Custo", "|", "DISCo", "|", "Download", "|", "Demon", "|", "eCatch", "|", "EirGrabber",
      "|", "EmailSiphon", "|", "EmailWolf", "|", "SuperHTTP", "|", "Surfbot", "|",
      "WebWhacker", " ", "|", "Express", "|", "WebPictures", "|", "ExtractorPro", "|",
      "EyeNetIE", "|", "FlashGet", "|", "GetRight", "|", "GetWeb", "!", "|", "Go", "!",
      "Zilla", "|", "Go", "-", "Ahead", "-", "Got", "-", "It", "|", "GrabNet", "|", "Grafula",
      "|", "HMView", "|", "Go", "!", "Zilla", "|", "Go", "-", "Ahead", "-", "Got", "-", "It",
      " ", "|", "rafula", "|", "HMView", "|", "HTTrack", "|", "Stripper", "|", "Sucker", "|",
      "Indy", "|", "InterGET", "|", "Ninja", "|", "JetCar", "|", "Spider", "|", "larbin", "|",
      "LeechFTP", "|", "Downloader", "|", "tool", "|", "Navroad", "|", "NearSite", "|",
      "NetAnts", "|", "tAkeOut", "|", "WWWOFFLE", " ", "|", "GrabNet", "|", "NetSpider", "|",
      "Vampire", "|", "NetZIP", "|", "Octopus", "|", "Offline", "|", "PageGrabber", "|",
      "Foto", "|", "pavuk", "|", "pcBrowser", "|", "RealDownload", "|", "ReGet", "|",
      "SiteSnagger", "|", "SmartDownload", "|", "SuperBot", "|", "WebSpider", " ", "|",
      "Teleport", "|", "VoidEYE", "|", "Collector", "|", "WebAuto", "|", "WebCopier", "|",
      "WebFetch", "|", "WebGo", "|", "WebLeacher", "|", "WebReaper", "|", "WebSauger", "|",
      "eXtractor", "|", "Quester", "|", "WebStripper", "|", "WebZIP", "|", "Wget", "|",
      "Widow", "|", "Zeus", " ", "|", "Twengabot", "|", "htmlparser", "|", "libwww", "|",
      "Python", "|", "perl", "|", "urllib", "|", "scan", "|", "Curl", "|", "email", "|",
      "PycURL", "|", "Pyth", "|", "PyQ", "|", "WebCollector", "|", "WebCopy", "|", "webcraw",
      " ">>

\* INITIAL_CONFIG, line by line.
initial_config ==
    <<CommentLine, BlankLine,
      CommentLine, KeyLine("http_port", IntValue(80)), BlankLine,
      CommentLine, KeyLine("https_port", IntValue(443)), BlankLine,
      TableLine("tls"), BlankLine,
      CommentLine, KeyLine("refresh_mins", IntValue(720)), BlankLine,
      CommentLine, KeyLine("chain", StrValue("/path/to/your/cert/fullchain.pem")), BlankLine,
      CommentLine, KeyLine("key", StrValue("/path/to/your/cert/privkey.pem")), BlankLine,
      TableLine("proxy"), BlankLine,
      CommentLine, KeyLine("domain", StrValue("example.com")), BlankLine,
      CommentLine, CommentLine, CommentLine, CommentLine,
      CommentLine, CommentLine, CommentLine, CommentLine,
      KeyLine("resolver", StrValue("system")), BlankLine,
      CommentLine, CommentLine, CommentLine,
      KeyLine("deny_user_agents", PatternValue(DefaultDenyUserAgents))>>

\* toml::from_str, the reading of the text: the table each key stands under,
\* with a key or a table header given twice refused.
RECURSIVE toml_tables(_, _, _, _)
toml_tables(lines, k, table, doc) ==
    IF k > Len(lines) THEN doc
    ELSE LET l == lines[k] IN
        IF l.kind = "table"
            THEN IF l.key \in doc.tables
                    THEN [doc EXCEPT !.ok = FALSE]
                    ELSE toml_tables(lines, k + 1, l.key,
                                     [doc EXCEPT !.tables = @ \cup {l.key}])
        ELSE IF l.kind = "kv"
            THEN IF \E e \in doc.entries : e.table = table /\ e.key = l.key
                    THEN [doc EXCEPT !.ok = FALSE]
                    ELSE toml_tables(lines, k + 1, table,
                                     [doc EXCEPT !.entries = @ \cup
                                        {[table |-> table, key |-> l.key, val |-> l.val]}])
        ELSE toml_tables(lines, k + 1, table, doc)

toml_parse(lines) == toml_tables(lines, 1, "", [ok |-> TRUE, tables |-> {}, entries |-> {}])

\* The fields of the structs Config, Tls and Proxy.
ConfigFields == {"http_port", "https_port", "tls", "proxy"}
TlsFields == {"refresh_mins", "chain", "key"}
ProxyFields == {"domain", "resolver", "deny_user_agents"}

\* A visit_str whose match has the trust-dns names only.
visit_str_trust_dns_only(v) == v \in {"google", "cloudflare", "quad9"}

\* Resolver's visit_str: "system" and the names of with_trust_dns_resolvers.
visit_str(v) == v \in {"system", "google", "cloudflare", "quad9"}

\* Strings that parse as an IpAddr, among those an array may hold here.
IpAddrs == {"1.1.1.1", "9.9.9.9"}

\* Resolver's visit_seq: every element has to be an IpAddr.
visit_seq(q) == \A k \in 1..Len(q) : q[k] \in IpAddrs

\* Regex::new on the tokens of a pattern: every ")" closes a group that is
\* open, no group is left open, and "*" has something to repeat; white space
\* is skipped once (?x) was seen.
regex_count(p, t, k) == Cardinality({j \in 1..k : p[j] = t})

regex_skipped(p, j) == p[j] = " " /\ \E i \in 1..(j - 1) : p[i] = "(?x)"

regex_atom_before(p, k) ==
    LET js == {j \in 1..(k - 1) : ~regex_skipped(p, j)} IN
    /\ js # {}
    /\ p[CHOOSE j \in js : \A i \in js : i <= j] \notin {"|", "(", "(?x)"}

regex_compiles(p) ==
    /\ \A k \in 1..Len(p) :
        /\ p[k] = ")" => regex_count(p, ")", k) <= regex_count(p, "(", k)
        /\ p[k] = "*" => regex_atom_before(p, k)
    /\ regex_count(p, "(", Len(p)) = regex_count(p, ")", Len(p))

\* What each field's type accepts.
field_accepts(table, key, v) ==
    IF table = "" THEN v.type = "int" /\ v.int \in 0..65535
    ELSE IF key = "refresh_mins" THEN v.type = "int" /\ v.int >= 0
    ELSE IF key = "resolver"
        THEN \/ v.type = "str" /\ v.str # "pattern" /\ visit_str(v.str)
             \/ v.type = "array" /\ visit_seq(v.seq)
    ELSE IF key = "deny_user_agents" THEN v.type = "str" /\ regex_compiles(v.seq)
    ELSE v.type = "str"

\* The derived Deserialize of Config, Tls and Proxy with deny_unknown_fields:
\* no field beyond the struct's, every field present, every value of its type.
Deserialize(doc) ==
    LET keys(t) == {e.key : e \in {x \in doc.entries : x.table = t}}
        root == keys("") \cup doc.tables
    IN  IF ~doc.ok THEN "syntax"
        ELSE IF ~(root \subseteq ConfigFields /\ keys("tls") \subseteq TlsFields
                  /\ keys("proxy") \subseteq ProxyFields) THEN "unknown field"
        ELSE IF ~(ConfigFields \subseteq root /\ TlsFields \subseteq keys("tls")
                  /\ ProxyFields \subseteq keys("proxy")) THEN "missing field"
        ELSE IF \E e \in doc.entries : ~field_accepts(e.table, e.key, e.val)
            THEN "invalid value"
        ELSE "ok"

\* The value of a key of a document that holds it.
config_value(doc, t, k) == (CHOOSE e \in doc.entries : e.table = t /\ e.key = k).val

NoConfig == [ok |-> FALSE, err |-> "none", http_port |-> 0, https_port |-> 0, refresh |-> 0]

\* config::read: the text is deserialized, and the minutes become seconds.
read(file) ==
    LET doc == toml_parse(file)
        err == Deserialize(doc)
    IN  IF err # "ok" THEN [NoConfig EXCEPT !.err = err]
        ELSE [ok |-> TRUE, err |-> "ok",
              http_port |-> config_value(doc, "", "http_port").int,
              https_port |-> config_value(doc, "", "https_port").int,
              refresh |-> config_value(doc, "tls", "refresh_mins").int * 60]

\* A configuration the operator wrote by hand: other ports, another
\* resolver, a short pattern, no comments.
operator_config ==
    <<KeyLine("http_port", IntValue(8080)), KeyLine("https_port", IntValue(8443)),
      TableLine("tls"),
      KeyLine("refresh_mins", IntValue(60)),
      KeyLine("chain", StrValue("/etc/spx/fullchain.pem")),
      KeyLine("key", StrValue("/etc/spx/privkey.pem")),
      TableLine("proxy"),
      KeyLine("domain", StrValue("example.org")),
      KeyLine("resolver", StrValue("quad9")),
      KeyLine("deny_user_agents", PatternValue(<<"bot", "|", "spider">>))>>

\* The text config.toml started from: what init wrote in full ("initial"),
\* what a failed write_all left ("partial", "empty"), or the operator's own.
base_text(base) ==
    IF base = "initial" THEN initial_config
    ELSE IF base = "partial" THEN SubSeq(initial_config, 1, Len(initial_config) \div 2)
    ELSE IF base = "other" THEN operator_config
    ELSE <<>>

\* config.toml after a successful init, not yet read by serve.
ConfigWritten ==
    [pc |-> "unread", exists |-> TRUE, base |-> "initial", edits |-> <<>>,
     result |-> NoConfig, init |-> "ok"]

\* config.toml before init is run: absent, or left by an earlier init, or
\* written by the operator.
ConfigStarts ==
    {[ConfigWritten EXCEPT !.exists = FALSE, !.base = "none", !.init = "none"]}
        \cup {[ConfigWritten EXCEPT !.base = b, !.init = "none"] : b \in {"initial", "other"}}

\* An open that creates the file or truncates the one that is there.
open_create_truncate(exists) == "created"

\* OpenOptions::new().write(true).create_new(true).open(..): the file is
\* created, or the open fails because it exists.
open_create_new(exists) == IF exists THEN "AlreadyExists" ELSE "created"

(* ------------------------------- state -------------------------------- *)

VARIABLES
    chainFile,     \* contents of the chain file on disk
    keyFile,       \* contents of the key file on disk
    fileWrites,    \* times the operator has rewritten the files
    cell,          \* contents of the Arc<Mutex<TlsAcceptor>>
    cellVer,       \* how many times the cell has been replaced
    mutex,         \* holder of the cell's lock: "free", "https" or "refresh"
    refresh,       \* the refresh task: pc, what it read and loaded, how often it slept and
                   \* reloaded, how many connections had been accepted by then, and
                   \* the acceptor its store replaced
    lpc,           \* position of each listener task
    acc,           \* per listener: result of the last accept, errors seen, sleep in progress
    stream,        \* serve_https: the tcp_stream accepted and not yet spawned (0: none)
    conns,         \* the connections, by id
    nconns,        \* connections accepted so far
    logs,          \* log entries written, by call site
    runResult,     \* run_async: "running", or "error" once try_join! saw an Err
    connector,     \* one Connector::call: its position, locals, attempts and result
    config         \* config.toml: whether it exists, the text it started from and
                   \* the edits made since, the result of init, and the result of
                   \* config::read once serve has read it

vars == <<chainFile, keyFile, fileWrites, cell, cellVer, mutex, refresh, lpc, acc,
          stream, conns, nconns, logs, runResult, connector, config>>

\* The variables of the server, which a connector call leaves alone.
serverVars == <<chainFile, keyFile, fileWrites, cell, cellVer, mutex, refresh, lpc, acc,
                stream, conns, nconns, logs, runResult>>

ConnIds == 1..MaxConns

NoConn ==
    [via |-> "none", st |-> "unused", acceptor |-> NoAcceptor,
     hs |-> "none", hsMs |-> 0, req |-> NoRequest, proxyCalls |-> 0,
     response |-> "none", upstream |-> <<>>, connectorCalls |-> 0, logged |-> 0]

\* The state when run is called: the files on disk are generation 1 or a pair
\* that does not load (later generations are what the operator writes).
ServerInit ==
    /\ \E d \in DiskStates :
        /\ d[1].gen <= 1 /\ d[2].gen <= 1
        /\ chainFile = d[1] /\ keyFile = d[2]
    /\ fileWrites = 0
    /\ cell = NoAcceptor
    /\ cellVer = 0
    /\ mutex = "free"
    /\ refresh = [pc |-> "unspawned", ok |-> FALSE, read |-> <<>>, loaded |-> NoAcceptor,
                 reloads |-> 0, sleeps |-> 0, connsAtReload |-> 0, connsAtStore |-> 0,
                 superseded |-> NoAcceptor]
    /\ lpc = [l \in Listeners |-> "bind"]
    /\ acc = [l \in Listeners |-> [last |-> "none", ignored |-> 0, logged |-> 0, sleepMs |-> 0]]
    /\ stream = 0
    /\ conns = [i \in ConnIds |-> NoConn]
    /\ nconns = 0
    /\ logs = [accept |-> 0, refresh |-> 0, connection |-> 0]
    /\ runResult = "running"
    /\ connector = ConnectorIdle

\* The server started on the file that init wrote.
Init == ServerInit /\ config = ConfigWritten

Running == runResult = "running"

(* ------------------------ the operator's files ------------------------ *)

\* The operator replaces the chain and key files (renewal, deletion, damage).
WriteFiles ==
    /\ Running
    /\ fileWrites < MaxFileWrites
    /\ \E d \in DiskStates :
        /\ d # <<chainFile, keyFile>>
        /\ chainFile' = d[1]
        /\ keyFile' = d[2]
    /\ fileWrites' = fileWrites + 1
    /\ UNCHANGED <<config, connector, cell, cellVer, mutex, refresh, lpc, acc, stream, conns, nconns, logs, runResult>>

(* --------------------------- the listeners ---------------------------- *)

\* io::ErrorKind values listener.accept() may fail with.
IgnoredAcceptErrors == {"ConnectionRefused", "ConnectionAborted", "ConnectionReset"}
AcceptErrors == IgnoredAcceptErrors \cup {"TimedOut", "Other"}

\* A match whose guard arm misses ConnectionReset.
accept_policy_reset_logged(kind) ==
    IF kind \in {"ConnectionRefused", "ConnectionAborted"}
        THEN [log |-> 0, sleepMs |-> 0, next |-> "accept"]
        ELSE [log |-> 1, sleepMs |-> AcceptBackoffMs, next |-> "backoff"]

\* A match whose last arm logs and retries without the sleep.
accept_policy_no_sleep(kind) ==
    IF kind \in {"ConnectionRefused", "ConnectionAborted", "ConnectionReset"}
        THEN [log |-> 0, sleepMs |-> 0, next |-> "accept"]
        ELSE [log |-> 1, sleepMs |-> 0, next |-> "accept"]

\* accept_tcp's match on the error: the guard arm does nothing and loops,
\* the last arm logs and sleeps.
accept_policy(kind) ==
    IF kind \in {"ConnectionRefused", "ConnectionAborted", "ConnectionReset"}
        THEN [log |-> 0, sleepMs |-> 0, next |-> "accept"]
        ELSE [log |-> 1, sleepMs |-> AcceptBackoffMs, next |-> "backoff"]

\* TcpListener::bind(...).await.with_context(...)? in serve_http and
\* serve_https: the port is acquired, or the task returns the error.
Bind(l) ==
    /\ Running
    /\ lpc[l] = "bind"
    /\ \E bound \in BOOLEAN :
        lpc' = [lpc EXCEPT ![l] = IF ~bound THEN "failed"
                                   ELSE IF l = "https" THEN "load" ELSE "accept"]
    /\ UNCHANGED <<config, connector, chainFile, keyFile, fileWrites, cell, cellVer, mutex, refresh, acc,
                   stream, conns, nconns, logs, runResult>>

\* refreshed_tls, up to its return: the initial load creates the cell and
\* spawns the refresh task, or its error is returned from serve_https.
InitialLoad ==
    /\ Running
    /\ lpc["https"] = "load"
    /\ LET r == acceptor(chainFile, keyFile) IN
        IF r.ok
            THEN /\ cell' = r.config
                 /\ refresh' = [refresh EXCEPT !.pc = "sleep"]
                 /\ lpc' = [lpc EXCEPT !["https"] = "accept"]
            ELSE /\ lpc' = [lpc EXCEPT !["https"] = "failed"]
                 /\ UNCHANGED <<config, connector, cell, refresh>>
    /\ UNCHANGED <<config, connector, chainFile, keyFile, fileWrites, cellVer, mutex, acc, stream, conns,
                   nconns, logs, runResult>>

\* accept_tcp: listener.accept() returned an error.
AcceptError(l) ==
    /\ Running
    /\ lpc[l] = "accept"
    /\ acc[l].ignored + acc[l].logged < MaxAcceptErrors
    /\ \E e \in AcceptErrors :
        LET p == accept_policy(e) IN
        /\ acc' = [acc EXCEPT ![l] = [last |-> e,
                                      ignored |-> @.ignored + (1 - p.log),
                                      logged |-> @.logged + p.log,
                                      sleepMs |-> p.sleepMs]]
        /\ logs' = [logs EXCEPT !.accept = @ + p.log]
        /\ lpc' = [lpc EXCEPT ![l] = p.next]
    /\ UNCHANGED <<config, connector, chainFile, keyFile, fileWrites, cell, cellVer, mutex, refresh, stream,
                   conns, nconns, runResult>>

\* accept_tcp: the sleep after a logged error is over; the loop calls accept again.
BackoffDone(l) ==
    /\ Running
    /\ lpc[l] = "backoff"
    /\ lpc' = [lpc EXCEPT ![l] = "accept"]
    /\ acc' = [acc EXCEPT ![l].sleepMs = 0]
    /\ UNCHANGED <<config, connector, chainFile, keyFile, fileWrites, cell, cellVer, mutex, refresh, stream,
                   conns, nconns, logs, runResult>>

\* serve_http: accept_tcp returned a stream; its serving task is spawned.
HttpAccept ==
    /\ Running
    /\ lpc["http"] = "accept"
    /\ nconns < MaxConns
    /\ nconns' = nconns + 1
    /\ conns' = [conns EXCEPT ![nconns + 1] =
                    [NoConn EXCEPT !.via = "http", !.st = "serving"]]
    /\ acc' = [acc EXCEPT !["http"].last = "ok"]
    /\ UNCHANGED <<config, connector, chainFile, keyFile, fileWrites, cell, cellVer, mutex, refresh, lpc,
                   stream, logs, runResult>>

\* serve_https: accept_tcp returned a stream; next the loop takes the lock.
HttpsAccept ==
    /\ Running
    /\ lpc["https"] = "accept"
    /\ nconns < MaxConns
    /\ nconns' = nconns + 1
    /\ conns' = [conns EXCEPT ![nconns + 1] =
                    [NoConn EXCEPT !.via = "https", !.st = "accepted"]]
    /\ stream' = nconns + 1
    /\ acc' = [acc EXCEPT !["https"].last = "ok"]
    /\ lpc' = [lpc EXCEPT !["https"] = "fetch"]
    /\ UNCHANGED <<config, connector, chainFile, keyFile, fileWrites, cell, cellVer, mutex, refresh, logs,
                   runResult>>

\* A guard bound to a variable that lives on after the statement.
guard_kept(holder) == holder

\* The MutexGuard of tls_config.lock().unwrap() is a temporary: it is dropped
\* at the end of the statement that took it, in serve_https and in the
\* refresh task alike.
guard_after_statement(holder) == "free"

\* serve_https: tls_config.lock().unwrap()
HttpsLock ==
    /\ Running
    /\ lpc["https"] = "fetch"
    /\ mutex = "free"
    /\ mutex' = "https"
    /\ lpc' = [lpc EXCEPT !["https"] = "locked"]
    /\ UNCHANGED <<config, connector, chainFile, keyFile, fileWrites, cell, cellVer, refresh, acc, stream,
                   conns, nconns, logs, runResult>>

\* The acceptor serve_https hands to the handshake: the cell's contents.
fetched_acceptor(i) == cell

\* A loop that awaits the spawned task before it accepts again.
after_spawn_joins == "join"

\* serve_https: tokio::task::spawn(...) returns at once and its handle is
\* dropped, so the loop goes straight back to accept_tcp.
after_spawn == "accept"

\* serve_https: .accept(tcp_stream) on the locked acceptor, the guard is
\* dropped at the end of the statement, and the connection's task is spawned.
HttpsSpawn ==
    /\ Running
    /\ lpc["https"] = "locked"
    /\ conns' = [conns EXCEPT ![stream].acceptor = fetched_acceptor(stream),
                              ![stream].st = "handshake"]
    /\ mutex' = guard_after_statement(mutex)
    /\ stream' = 0
    /\ lpc' = [lpc EXCEPT !["https"] = after_spawn]
    /\ UNCHANGED <<config, connector, chainFile, keyFile, fileWrites, cell, cellVer, refresh, acc, nconns,
                   logs, runResult>>

(* ----------------------- the connections' tasks ----------------------- *)

\* Times (ms after the task starts) at which a handshake may finish.
HandshakeTimes == {100, 200, 300}

\* A handshake awaited without the deadline.
timeout_never_elapses(outcome, ms) == {outcome}

\* time::timeout(200 ms, accept): the handshake's own result when it ends
\* before the deadline, Elapsed after it; at the deadline either may win.
timeout(outcome, ms) ==
    IF ms < HandshakeTimeoutMs THEN {outcome}
    ELSE IF ms = HandshakeTimeoutMs THEN {outcome, "elapsed"}
    ELSE {"elapsed"}

\* A handshake that looks into the cell when it runs.
handshake_acceptor_from_cell(i) == cell

\* The Accept future made by .accept(tcp_stream) owns the acceptor's
\* configuration; the task that awaits it never touches the cell.
handshake_acceptor(i) == conns[i].acceptor

\* The spawned HTTPS task up to serve_connection: Ok(Ok(stream)) goes on to
\* serve, Ok(Err(_)) | Err(_) returns.
Handshake(i) ==
    /\ Running
    /\ conns[i].st = "handshake"
    /\ \E outcome \in {"ok", "err"}, ms \in HandshakeTimes :
        \E r \in timeout(outcome, ms) :
            conns' = [conns EXCEPT ![i].hs = outcome, ![i].hsMs = ms,
                                   ![i].acceptor = handshake_acceptor(i),
                                   ![i].st = IF r = "ok" THEN "serving" ELSE "dropped"]
    /\ UNCHANGED <<config, connector, chainFile, keyFile, fileWrites, cell, cellVer, mutex, refresh, lpc, acc,
                   stream, nconns, logs, runResult>>

\* http.serve_connection(io, proxy): a request arrives and Proxy::call runs.
\* A panic in the service unwinds the connection's task.
Request(i) ==
    /\ Running
    /\ conns[i].st = "serving"
    /\ \E req \in Requests :
        LET r == ProxyCall(req) IN
        conns' = [conns EXCEPT ![i].req = req,
                               ![i].proxyCalls = @ + 1,
                               ![i].response = r.response,
                               ![i].upstream = r.upstream,
                               ![i].connectorCalls = @ + r.connectorCalls,
                               ![i].st = IF r.panicked THEN "panicked" ELSE "serving"]
    /\ UNCHANGED <<config, connector, chainFile, keyFile, fileWrites, cell, cellVer, mutex, refresh, lpc, acc,
                   stream, nconns, logs, runResult>>

\* A connection error that is returned to the accept loop and ends it.
listener_fails_on_connection_error(pc) == "failed"

\* serve_connection returns () after logging the error, and nobody awaits
\* the task's handle: the accept loop that spawned it stays where it is.
listener_after_connection_error(pc) == pc

\* serve_connection: http.serve_connection returned Err(e), which is logged.
ConnectionError(i) ==
    /\ Running
    /\ conns[i].st = "serving"
    /\ conns' = [conns EXCEPT ![i].st = "closed", ![i].logged = @ + 1]
    /\ logs' = [logs EXCEPT !.connection = @ + 1]
    /\ lpc' = [lpc EXCEPT ![conns[i].via] = listener_after_connection_error(@)]
    /\ UNCHANGED <<config, connector, chainFile, keyFile, fileWrites, cell, cellVer, mutex, refresh, acc,
                   stream, nconns, runResult>>

\* serve_connection: http.serve_connection returned Ok(()): the peer closed.
ConnectionClose(i) ==
    /\ Running
    /\ conns[i].st = "serving"
    /\ conns' = [conns EXCEPT ![i].st = "closed"]
    /\ UNCHANGED <<config, connector, chainFile, keyFile, fileWrites, cell, cellVer, mutex, refresh, lpc, acc,
                   stream, nconns, logs, runResult>>

(* -------------------------- the refresh task -------------------------- *)

\* Where the spawned block of refreshed_tls goes after its match: the block
\* holds no loop, so the task ends.
refresh_after_reload == "done"

\* time::sleep(tls.refresh) is over.
RefreshWake ==
    /\ Running
    /\ refresh.pc = "sleep"
    /\ refresh' = [refresh EXCEPT !.pc = "load", !.sleeps = @ + 1]
    /\ UNCHANGED <<config, connector, chainFile, keyFile, fileWrites, cell, cellVer, mutex, lpc, acc, stream,
                   conns, nconns, logs, runResult>>

\* acceptor(chain, key).await in the refresh task: Err is logged.
RefreshLoad ==
    /\ Running
    /\ refresh.pc = "load"
    /\ LET r == acceptor(chainFile, keyFile) IN
        IF r.ok
            THEN /\ refresh' = [refresh EXCEPT !.pc = "lock", !.ok = TRUE,
                                               !.read = <<chainFile, keyFile>>,
                                               !.connsAtReload = nconns,
                                               !.loaded = r.config, !.reloads = @ + 1]
                 /\ logs' = logs
            ELSE /\ refresh' = [refresh EXCEPT !.pc = refresh_after_reload, !.ok = FALSE,
                                               !.read = <<chainFile, keyFile>>,
                                               !.connsAtReload = nconns,
                                               !.loaded = NoAcceptor, !.reloads = @ + 1]
                 /\ logs' = [logs EXCEPT !.refresh = @ + 1]
    /\ UNCHANGED <<config, connector, chainFile, keyFile, fileWrites, cell, cellVer, mutex, lpc, acc, stream,
                   conns, nconns, runResult>>

\* tls_config.lock().unwrap() in the refresh task.
RefreshLock ==
    /\ Running
    /\ refresh.pc = "lock"
    /\ mutex = "free"
    /\ mutex' = "refresh"
    /\ refresh' = [refresh EXCEPT !.pc = "store"]
    /\ UNCHANGED <<config, connector, chainFile, keyFile, fileWrites, cell, cellVer, lpc, acc, stream, conns,
                   nconns, logs, runResult>>

\* A store that leaves the old acceptor in the cell.
published_keeps_old(loaded, old) == old

\* A store that replaces the certificates and keeps the old key.
published_partial(loaded, old) == [loaded EXCEPT !.key = old.key]

\* What the Ok arm assigns through the guard.
published(loaded, old) == loaded

\* *guard = acceptor; the guard is dropped at the end of the statement.
RefreshStore ==
    /\ Running
    /\ refresh.pc = "store"
    /\ cell' = published(refresh.loaded, cell)
    /\ cellVer' = cellVer + 1
    /\ mutex' = guard_after_statement(mutex)
    /\ refresh' = [refresh EXCEPT !.pc = refresh_after_reload, !.connsAtStore = nconns,
                                   !.superseded = cell]
    /\ UNCHANGED <<config, connector, chainFile, keyFile, fileWrites, lpc, acc, stream, conns, nconns, logs,
                   runResult>>

(* ------------------------- Connector::call ---------------------------- *)

\* Connector::call up to the resolution: uri.host().ok_or(NoHost)? and the
\* choice of the port.
ConnectorCall ==
    /\ connector.pc = "idle"
    /\ \E uri \in Uris :
        LET host == uri_host(uri) IN
        IF host = <<>>
            THEN connector' = [connector EXCEPT !.pc = "done", !.uri = uri,
                                                !.result = [NoResult EXCEPT !.kind = "NoHost"]]
            ELSE connector' = [connector EXCEPT !.pc = "resolve", !.uri = uri,
                                                !.host = host[1],
                                                !.port = connector_port(uri)]
    /\ UNCHANGED <<config, serverVars>>

\* this.resolver.resolve(host).await.map_err(ConnectorError::Dns)?: the
\* lookup fails, or yields addresses that are paired with the port.
ConnectorResolve ==
    /\ connector.pc = "resolve"
    /\ \/ connector' = [resolve_failed(connector) EXCEPT !.lookup = "err"]
       \/ \E n \in 0..MaxAddrs : \E ips \in [1..n -> IPs] :
            connector' = [connector EXCEPT !.pc = "connect", !.resolves = @ + 1,
                                           !.lookup = "ok", !.resolved = ips,
                                           !.addresses = socket_addrs(ips, connector.port)]
    /\ UNCHANGED <<config, serverVars>>

\* TcpStream::connect(&*addresses).await.map_err(ConnectorError::Tcp): one
\* connection attempt, or the error once no address is left.
ConnectorConnect ==
    /\ connector.pc = "connect"
    /\ LET k == Len(connector.attempts) + 1 IN
        IF k > Len(connector.addresses)
            THEN connector' = [connector EXCEPT !.pc = "done",
                                                !.result = [NoResult EXCEPT !.kind = "Tcp"]]
            ELSE \E ok \in BOOLEAN :
                LET a == attempt_target(connector.addresses, k) IN
                connector' =
                    [connector EXCEPT
                        !.attempts = Append(@, [ip |-> a.ip, port |-> a.port, ok |-> ok]),
                        !.pc = IF connect_continues(ok) THEN "connect" ELSE "done",
                        !.result = IF connect_continues(ok) THEN @
                                   ELSE [kind |-> "Ok", ip |-> a.ip, port |-> a.port]]
    /\ UNCHANGED <<config, serverVars>>

(* --------------------------- init and serve --------------------------- *)

\* Values the operator may put in place of a key's value.
EditValues ==
    {IntValue(8080), IntValue(-1), IntValue(70000),
     StrValue("cloudflare"), StrValue("opendns"),
     ArrayValue(<<"1.1.1.1", "9.9.9.9">>), ArrayValue(<<"localhost">>),
     PatternValue(<<"bot", "*">>), PatternValue(<<"(", "bot">>), PatternValue(<<"*">>)}

\* The edits of a text: a line is removed, a key's value is replaced, or a
\* key the structs do not have is inserted.
Edits(file) ==
    {[op |-> "remove", at |-> k, line |-> BlankLine] : k \in 1..Len(file)}
    \cup {[op |-> "replace", at |-> x[1], line |-> KeyLine(file[x[1]].key, x[2])] :
            x \in {y \in (1..Len(file)) \X EditValues :
                        file[y[1]].kind = "kv" /\ file[y[1]].val # y[2]}}
    \cup {[op |-> "insert", at |-> k, line |-> KeyLine("extra", IntValue(1))] :
            k \in 0..Len(file)}

apply_edit(file, e) ==
    IF e.op = "remove" THEN SubSeq(file, 1, e.at - 1) \o SubSeq(file, e.at + 1, Len(file))
    ELSE IF e.op = "replace" THEN [file EXCEPT ![e.at] = e.line]
    ELSE SubSeq(file, 1, e.at) \o <<e.line>> \o SubSeq(file, e.at + 1, Len(file))

RECURSIVE apply_edits(_, _, _)
apply_edits(file, edits, k) ==
    IF k > Len(edits) THEN file ELSE apply_edits(apply_edit(file, edits[k]), edits, k + 1)

\* config.toml: the text it started from, as edited since.
ConfigFile == apply_edits(base_text(config.base), config.edits, 1)

\* The operator edits config.toml before serve is run.
ConfigEdit ==
    /\ config.pc = "unread"
    /\ config.exists
    /\ Len(config.edits) < MaxConfigEdits
    /\ \E e \in Edits(ConfigFile) : config' = [config EXCEPT !.edits = Append(@, e)]
    /\ UNCHANGED <<connector, serverVars>>

\* init: the open with create_new, then write_all of initial_config(); either
\* may fail, and a failed write_all leaves the new file empty or cut short.
init ==
    /\ config.pc = "unread"
    /\ config.init = "none"
    /\ \/ config' = [config EXCEPT !.init = "open failed"]
       \/ IF open_create_new(config.exists) # "created"
            THEN config' = [config EXCEPT !.init = "exists"]
            ELSE \E w \in {"initial", "partial", "empty"} :
                    config' = [config EXCEPT !.exists = TRUE, !.base = w, !.edits = <<>>,
                                             !.init = IF w = "initial" THEN "ok"
                                                      ELSE "write failed"]
    /\ UNCHANGED <<connector, serverVars>>

\* serve: fs::read_to_string(config) and config::read(&*config).
ConfigRead ==
    /\ config.pc = "unread"
    /\ config' = [config EXCEPT
                    !.pc = "read",
                    !.result = IF config.exists THEN read(ConfigFile)
                               ELSE [NoConfig EXCEPT !.err = "failed to open config file"]]
    /\ UNCHANGED <<connector, serverVars>>

(* ------------------------------ run_async ----------------------------- *)

\* try_join!(http_task, https_task)?: the first Err ends run_async, and the
\* runtime is dropped with it.
RunReturn ==
    /\ Running
    /\ \E l \in Listeners : lpc[l] = "failed"
    /\ runResult' = "error"
    /\ UNCHANGED <<config, connector, chainFile, keyFile, fileWrites, cell, cellVer, mutex, refresh, lpc, acc,
                   stream, conns, nconns, logs>>

\* The server and its connections, with the certificate files left as they
\* were at startup and every accept succeeding.
Next ==
    \/ \E l \in Listeners : Bind(l)
    \/ InitialLoad
    \/ HttpAccept
    \/ HttpsAccept
    \/ HttpsLock
    \/ HttpsSpawn
    \/ \E i \in ConnIds : Handshake(i)
    \/ \E i \in ConnIds : Request(i)
    \/ \E i \in ConnIds : ConnectionError(i)
    \/ \E i \in ConnIds : ConnectionClose(i)
    \/ RefreshWake
    \/ RefreshLoad
    \/ RefreshLock
    \/ RefreshStore
    \/ RunReturn

Spec == Init /\ [][Next]_vars

\* The certificate manager and the HTTPS path it feeds, with an operator who
\* rewrites the files: the HTTPS listener's startup and accept loop, the
\* handshakes and the refresh task.
TlsNext ==
    \/ WriteFiles
    \/ Bind("https")
    \/ InitialLoad
    \/ HttpsAccept
    \/ HttpsLock
    \/ HttpsSpawn
    \/ \E i \in ConnIds : Handshake(i)
    \/ RefreshWake
    \/ RefreshLoad
    \/ RefreshLock
    \/ RefreshStore
    \/ RunReturn

TlsSpec == Init /\ [][TlsNext]_vars

\* The refresh task beside both listeners, with an operator who rewrites the
\* files: startup, both accept loops up to the spawn of each connection's
\* task, and the refresh task.
ReloadNext ==
    \/ WriteFiles
    \/ \E l \in Listeners : Bind(l)
    \/ InitialLoad
    \/ HttpAccept
    \/ HttpsAccept
    \/ HttpsLock
    \/ HttpsSpawn
    \/ RefreshWake
    \/ RefreshLoad
    \/ RefreshLock
    \/ RefreshStore
    \/ RunReturn

ReloadSpec == Init /\ [][ReloadNext]_vars

\* The two accept loops under failing accepts, up to the spawn of each
\* accepted connection's task.
AcceptNext ==
    \/ \E l \in Listeners : Bind(l)
    \/ InitialLoad
    \/ \E l \in Listeners : AcceptError(l)
    \/ \E l \in Listeners : BackoffDone(l)
    \/ HttpAccept
    \/ HttpsAccept
    \/ HttpsLock
    \/ HttpsSpawn
    \/ RefreshWake
    \/ RefreshLoad
    \/ RefreshLock
    \/ RefreshStore
    \/ RunReturn

AcceptSpec == Init /\ [][AcceptNext]_vars

\* One call of the connector, for every Uri, lookup result and outcome of
\* each connection attempt; the server is left at its start.
ConnectorInit ==
    /\ Init
    /\ chainFile = [kind |-> "certs", gen |-> 1]
    /\ keyFile = [kind |-> "rsa", gen |-> 1, valid |-> TRUE]

ConnectorNext ==
    \/ ConnectorCall
    \/ ConnectorResolve
    \/ ConnectorConnect

ConnectorSpec == ConnectorInit /\ [][ConnectorNext]_vars

\* The configuration file: init, the operator's edits before and after it,
\* and serve's reading of the file; the server is left at its start.
ConfigInit ==
    /\ ServerInit
    /\ chainFile = [kind |-> "certs", gen |-> 1]
    /\ keyFile = [kind |-> "rsa", gen |-> 1, valid |-> TRUE]
    /\ config \in ConfigStarts

ConfigNext ==
    \/ init
    \/ ConfigEdit
    \/ ConfigRead

ConfigSpec == ConfigInit /\ [][ConfigNext]_vars

(* ======================= the certificate manager ====================== *)

\* A connection whose acceptor has been fetched from the cell.
Fetched(i) == conns[i].via = "https" /\ conns[i].st \notin {"unused", "accepted"}

\* A chain and key the load accepts.
Loadable(chain, key) ==
    chain.kind = "certs" /\ key.kind \in {"rsa", "pkcs8"} /\ key.valid

\* C1: the refresh task repeats for ever: after every reload it sleeps and
\* reloads again, so it never reaches a terminal state.
C1_RefreshNeverTerminates == refresh.pc # "done"

\* C2 (in every state): once a reload attempt has failed, the cell has not been
\* replaced, the failure has been logged once, and every connection whose
\* acceptor was fetched after the attempt got the acceptor that was in force.
C2_StateAfterFailedReload ==
    (refresh.reloads > 0 /\ ~Loadable(refresh.read[1], refresh.read[2])) =>
        /\ refresh.pc = "done"
        /\ cellVer = 0
        /\ cell # NoAcceptor
        /\ logs.refresh = refresh.reloads
        /\ \A i \in ConnIds : Fetched(i) => conns[i].acceptor = cell

\* C2 (in every step): a reload of files that cannot be loaded leaves the cell,
\* the listeners, the connections and the server's result as they were and
\* writes one log entry.
C2_FailedReloadStep ==
    (refresh.pc = "load" /\ refresh'.pc # "load" /\ ~Loadable(chainFile, keyFile)) =>
        /\ cell' = cell
        /\ cellVer' = cellVer
        /\ lpc' = lpc
        /\ conns' = conns
        /\ runResult' = runResult
        /\ logs'.refresh = logs.refresh + 1

\* C2: a failed reload attempt leaves the shared cell unchanged, is only
\* logged, and terminates neither the server nor a listener; the acceptor
\* fetched after it is the one in force before it.
C2_FailedReloadKeepsAcceptor ==
    [] C2_StateAfterFailedReload /\ [][C2_FailedReloadStep]_vars

\* C2 witness: the files went bad after startup, the reload failed, and of two
\* connections accepted after the failure the HTTP one is served and the HTTPS
\* one is handshaking with the startup acceptor.
C2_Witness ==
    /\ refresh.pc = "done" /\ ~refresh.ok /\ fileWrites = 1
    /\ refresh.connsAtReload = 0
    /\ \E i, j \in ConnIds :
        /\ conns[i].via = "http" /\ conns[i].st = "serving"
        /\ conns[j].st = "handshake"
        /\ conns[j].acceptor = cell
        /\ cell = [certs |-> 1, key |-> 1, alpn |-> AlpnProtocols]

\* C3: after a successful reload the cell holds the acceptor built from the
\* files as read in that reload, and every connection accepted after the
\* cell's replacement handshakes with the cell's acceptor.
C3_AcceptedAfterReloadUseNew ==
    /\ (refresh.pc = "done" /\ refresh.ok) =>
        /\ cellVer = 1
        /\ cell = [certs |-> refresh.read[1].gen, key |-> refresh.read[2].gen,
                   alpn |-> AlpnProtocols]
    /\ \A i \in ConnIds :
        (Fetched(i) /\ i > refresh.connsAtStore) => conns[i].acceptor = cell

\* C3 witness: a connection accepted before the reload got generation 1, the
\* reload published generation 2, and a connection accepted after it has
\* completed its handshake with generation 2.
C3_Witness ==
    /\ refresh.pc = "done" /\ refresh.ok /\ cell.certs = 2
    /\ \E i, j \in ConnIds :
        /\ conns[i].st = "serving" /\ i <= refresh.connsAtStore /\ conns[i].acceptor.certs = 1
        /\ conns[j].st = "serving" /\ j > refresh.connsAtStore /\ conns[j].acceptor = cell

(* ============================= the proxy ============================== *)

\* "." + base_domain
DomainSuffix == <<".">> \o BaseDomain

EndsWith(h, suffix) ==
    /\ Len(h) >= Len(suffix)
    /\ SubSeq(h, Len(h) - Len(suffix) + 1, Len(h)) = suffix

\* h with the trailing "." + base_domain removed
StripSuffix(h) == SubSeq(h, 1, Len(h) - Len(DomainSuffix))

\* A connection on which the proxy has been called with a request.
Handled(i) == conns[i].proxyCalls > 0

\* C4: a Host of the form <anything>.<base_domain> is routed to the upstream
\* host left after removing "." + base_domain, and every other Host is rejected.
C4_RoutesBySuffix ==
    \A i \in ConnIds :
        Handled(i) =>
            IF EndsWith(conns[i].req.host, DomainSuffix)
                THEN conns[i].req.ua \notin DenyUserAgents
                        => conns[i].upstream = StripSuffix(conns[i].req.host)
                ELSE conns[i].response = "rejected"

\* C5: a request whose User-Agent matches deny_user_agents is rejected, and
\* the connector is not called for it.
C5_DeniedAgentRejectedUnconnected ==
    \A i \in ConnIds :
        (Handled(i) /\ conns[i].req.ua \in DenyUserAgents) =>
            conns[i].response = "rejected" /\ conns[i].connectorCalls = 0

\* C6: every request the proxy handles yields a response, and handling it
\* never panics the connection's task.
C6_EveryRequestAnswered ==
    \A i \in ConnIds :
        Handled(i) => conns[i].response # "none" /\ conns[i].st # "panicked"

(* ============================ the connector =========================== *)

\* C7: the connection attempts go to the resolved addresses in the resolver's
\* order, each with the chosen port, none repeated or skipped; the first
\* attempt that connects ends the call with that stream, and only when every
\* address has failed is the result ConnectorError::Tcp.
C7_AttemptsInResolverOrder ==
    LET c == connector
        n == Len(c.attempts)
    IN  /\ n <= Len(c.resolved)
        /\ \A k \in 1..n : c.attempts[k].ip = c.resolved[k] /\ c.attempts[k].port = c.port
        /\ \A k \in 1..(n - 1) : ~c.attempts[k].ok
        /\ (n >= 1 /\ c.attempts[n].ok) =>
            /\ c.pc = "done"
            /\ c.result = [kind |-> "Ok", ip |-> c.resolved[n], port |-> c.port]
        /\ c.result.kind = "Ok" => n >= 1 /\ c.attempts[n].ok
        /\ c.result.kind = "Tcp" =>
            n = Len(c.resolved) /\ \A k \in 1..n : ~c.attempts[k].ok
        /\ (c.pc = "done" /\ c.resolves = 1 /\ c.result.kind # "Dns"
                /\ \A k \in 1..n : ~c.attempts[k].ok) => c.result.kind = "Tcp"

\* C7 witness: the resolver returned A, B, C; A failed, B connected, the call
\* returned the stream to B and C was not attempted.
C7_Witness ==
    /\ connector.pc = "done"
    /\ connector.resolved = <<"A", "B", "C">>
    /\ connector.attempts = <<[ip |-> "A", port |-> 443, ok |-> FALSE],
                              [ip |-> "B", port |-> 443, ok |-> TRUE]>>
    /\ connector.result = [kind |-> "Ok", ip |-> "B", port |-> 443]

(* =========================== the accept loops ========================= *)

\* A step in which listener l's accept call returned an error.
AcceptFailed(l) ==
    /\ lpc[l] = "accept"
    /\ acc'[l].ignored + acc'[l].logged = acc[l].ignored + acc[l].logged + 1

\* C8 (in every step): an accept error of kind ConnectionRefused,
\* ConnectionAborted or ConnectionReset writes no log entry, starts no sleep
\* and leaves the loop at its accept call, with the server running.
C8_IgnoredErrorStep ==
    \A l \in Listeners :
        (AcceptFailed(l)
            /\ acc'[l].last \in {"ConnectionRefused", "ConnectionAborted", "ConnectionReset"}) =>
            /\ logs' = logs
            /\ lpc'[l] = "accept"
            /\ acc'[l].sleepMs = 0
            /\ runResult' = runResult
            /\ conns' = conns

\* C8 (in every state): an accept loop that has seen such errors has not
\* ended, and an accepted connection is either spawned as a task or is the
\* stream its loop holds on the way to the spawn.
C8_AcceptedIsSpawned ==
    /\ \A l \in Listeners : acc[l].ignored > 0 => lpc[l] \in {"accept", "backoff", "fetch", "locked"}
    /\ \A i \in ConnIds :
        /\ conns[i].via = "http" => conns[i].st = "serving"
        /\ conns[i].via = "https" =>
            \/ conns[i].st = "handshake"
            \/ conns[i].st = "accepted" /\ stream = i /\ lpc["https"] \in {"fetch", "locked"}

\* C8: ConnectionRefused, ConnectionAborted and ConnectionReset at accept are
\* ignored without log or sleep, never end the loop, and a connection accepted
\* after them is handed to its task.
C8_TransientAcceptErrorsIgnored ==
    [] C8_AcceptedIsSpawned /\ [][C8_IgnoredErrorStep]_vars

\* C8 witness: each loop has ignored two errors, nothing was logged, and the
\* connection each accepted afterwards has its task.
C8_Witness ==
    /\ logs.accept = 0
    /\ \A l \in Listeners : acc[l].ignored >= 2 /\ acc[l].last = "ok" /\ lpc[l] = "accept"
    /\ \E i, j \in ConnIds :
        /\ conns[i].via = "http" /\ conns[i].st = "serving"
        /\ conns[j].via = "https" /\ conns[j].st = "handshake"

\* C9 (in every step): any other accept error writes one log entry and starts
\* a sleep of one second; the step that ends the sleep returns to the accept
\* call and does nothing else.
C9_LoggedErrorStep ==
    \A l \in Listeners :
        /\ (AcceptFailed(l)
                /\ acc'[l].last \notin {"ConnectionRefused", "ConnectionAborted", "ConnectionReset"}) =>
            /\ logs' = [logs EXCEPT !.accept = @ + 1]
            /\ lpc'[l] = "backoff"
            /\ acc'[l].sleepMs = 1000
            /\ runResult' = runResult
        /\ (lpc[l] = "backoff" /\ lpc'[l] # "backoff") =>
            /\ lpc'[l] = "accept"
            /\ logs' = logs
            /\ runResult' = runResult

\* C9 (in every state): a sleeping loop sleeps for one second, one log entry
\* exists per such error, and a loop that has seen such errors has not ended.
C9_BackoffState ==
    /\ logs.accept = acc["http"].logged + acc["https"].logged
    /\ \A l \in Listeners :
        /\ lpc[l] = "backoff" <=> acc[l].sleepMs = 1000
        /\ lpc[l] # "backoff" => acc[l].sleepMs = 0
        /\ acc[l].logged > 0 => lpc[l] \in {"accept", "backoff", "fetch", "locked"}

\* C9: every accept error other than the three ignored kinds is logged and
\* followed by one pause of one second before the next accept; the listener
\* never ends on such errors and serves again once accept succeeds.
C9_OtherAcceptErrorsBackOff ==
    [] C9_BackoffState /\ [][C9_LoggedErrorStep]_vars

\* C9 witness: a loop logged two errors in a row, slept after each, and the
\* connection it accepted afterwards has its task.
C9_Witness ==
    \E l \in Listeners :
        /\ acc[l].logged >= 2 /\ acc[l].ignored = 0 /\ acc[l].last = "ok"
        /\ logs.accept >= 2
        /\ lpc[l] = "accept"
        /\ \E i \in ConnIds : conns[i].via = l /\ conns[i].st \in {"serving", "handshake"}

(* ========================== the TLS handshake ========================= *)

\* Log entries written by the tasks of connections 1..n.
RECURSIVE LoggedByConns(_)
LoggedByConns(n) == IF n = 0 THEN 0 ELSE conns[n].logged + LoggedByConns(n - 1)

\* C10: an HTTPS connection is served only if its handshake succeeded within
\* 200 ms; one whose handshake failed or ran past 200 ms is dropped without a
\* log entry and without a call of the proxy, and the listener goes on.
C10_HandshakeBoundedAndSilent ==
    /\ logs.accept + logs.refresh + logs.connection
            = LoggedByConns(MaxConns)
    /\ \A i \in ConnIds :
        conns[i].via = "https" =>
            /\ conns[i].st \in {"serving", "closed", "panicked"} =>
                conns[i].hs = "ok" /\ conns[i].hsMs <= 200
            /\ (conns[i].hs = "err" \/ conns[i].hsMs > 200) => conns[i].st = "dropped"
            /\ conns[i].st = "dropped" =>
                /\ conns[i].proxyCalls = 0
                /\ conns[i].logged = 0
                /\ lpc["https"] \in {"accept", "fetch", "locked"}

\* C10 witness: one handshake failed, one completed too late, both connections
\* were dropped and nothing was logged.
C10_Witness ==
    /\ logs = [accept |-> 0, refresh |-> 0, connection |-> 0]
    /\ lpc["https"] = "accept"
    /\ \E i, j \in ConnIds :
        /\ conns[i].st = "dropped" /\ conns[i].hs = "err" /\ conns[i].hsMs = 100
        /\ conns[j].st = "dropped" /\ conns[j].hs = "ok" /\ conns[j].hsMs = 300

(* ============================ concurrency ============================= *)

\* C11 (in every state): while a handshake is in progress the HTTPS accept
\* loop is in its own cycle of accept, lock and spawn, and it is not holding
\* that connection: it never waits for a handshake.
C11_LoopNotWaiting ==
    \A i \in ConnIds :
        conns[i].st = "handshake" =>
            /\ lpc["https"] \in {"accept", "backoff", "fetch", "locked"}
            /\ stream # i

\* C11 (in every step): the end of one connection's handshake changes neither
\* the accept loop nor any other connection, and a step of the accept loop or
\* of another connection leaves a handshake in progress as it was.
C11_HandshakeStep ==
    \A i \in ConnIds :
        conns[i].st = "handshake" =>
            IF conns'[i] # conns[i]
                THEN /\ lpc' = lpc /\ stream' = stream /\ nconns' = nconns
                     /\ \A j \in ConnIds \ {i} : conns'[j] = conns[j]
                ELSE conns'[i].st = "handshake"

\* C11: a handshake that is slow or never completes does not delay any other
\* connection: the HTTPS accept loop returns to accepting without waiting for
\* any handshake, and each handshake runs in its own task.
C11_SlowHandshakeDelaysNoOne ==
    [] C11_LoopNotWaiting /\ [][C11_HandshakeStep]_vars

\* C11 witness: a handshake is still in progress while a connection accepted
\* after it has finished its own handshake and is being served, and the loop
\* is accepting again.
C11_Witness ==
    \E i, j \in ConnIds :
        /\ i < j
        /\ conns[i].st = "handshake"
        /\ conns[j].via = "https" /\ conns[j].st = "serving" /\ conns[j].hs = "ok"
        /\ lpc["https"] = "accept"

(* ============================== startup =============================== *)

\* A connection that has been handed to its task.
Spawned(i) == conns[i].st \notin {"unused", "accepted"}

\* C12: when the bind of the HTTP or HTTPS port, or the initial certificate
\* load, fails, no inbound connection on either listener has been accepted
\* and handed to a serving task before that failure is reported.
C12_NoConnectionBeforeStartupFailure ==
    [][(\E l \in Listeners : lpc[l] # "failed" /\ lpc'[l] = "failed") =>
            \A i \in ConnIds : ~Spawned(i)]_vars

(* ====================== isolation of connections ====================== *)

\* C13 (in every state): a listener that has accepted a connection is still in
\* its accept loop, whatever became of the connection, and every entry of the
\* connection log was written by the task of the connection that failed.
C13_ListenersOutliveConnections ==
    /\ \A i \in ConnIds :
        /\ conns[i].via \in Listeners =>
                lpc[conns[i].via] \in {"accept", "backoff", "fetch", "locked"}
        /\ conns[i].logged > 0 => conns[i].st = "closed" /\ conns[i].logged = 1
    /\ logs.connection = LoggedByConns(MaxConns)

\* C13 (in every step): the step that ends a served connection, by an error
\* of the HTTP protocol or by a panic of the service, changes only that
\* connection and, for an error, the log: both accept loops, the server's
\* result and every other connection are as they were.
C13_FailureStep ==
    \A i \in ConnIds :
        (conns[i].st = "serving" /\ conns'[i].st \in {"closed", "panicked"}) =>
            /\ lpc' = lpc /\ stream' = stream /\ nconns' = nconns
            /\ runResult' = runResult
            /\ \A j \in ConnIds \ {i} : conns'[j] = conns[j]
            /\ logs'.connection - logs.connection = conns'[i].logged - conns[i].logged

C14_InitialConfigAccepted ==
    (config.exists /\ config.base = "initial" /\ config.edits = <<>>) =>
        LET doc == toml_parse(ConfigFile) IN
        /\ doc.ok
        /\ doc.tables = {"tls", "proxy"}
        /\ {<<e.table, e.key>> : e \in doc.entries} =
                {<<"", "http_port">>, <<"", "https_port">>,
                 <<"tls", "refresh_mins">>, <<"tls", "chain">>, <<"tls", "key">>,
                 <<"proxy", "domain">>, <<"proxy", "resolver">>,
                 <<"proxy", "deny_user_agents">>}
        /\ config_value(doc, "proxy", "resolver").str
                \in {"system", "google", "cloudflare", "quad9"}
        /\ regex_compiles(config_value(doc, "proxy", "deny_user_agents").seq)
        /\ config.pc = "read" => config.result.ok

\* C14 witness: serve has read the file as init wrote it, and got a
\* configuration with the default ports and a refresh of 720 minutes.
C14_Witness ==
    /\ config.pc = "read" /\ config.init = "ok" /\ config.edits = <<>>
    /\ config.result = [ok |-> TRUE, err |-> "ok", http_port |-> 80, https_port |-> 443,
                         refresh |-> 43200]

(* ============================== the lock ============================== *)

\* C15 (in every state): the lock is held by the accept loop only at its read
\* of the cell and by the refresh task only at its store: not during the
\* refresh sleep or the load, not while the loop waits for a TCP accept, and
\* by no handshake.  A task that waits for the lock waits for a holder whose
\* next step releases it, and the two tasks never wait for each other.
C15_LockHeldOnlyAtReadOrStore ==
    /\ mutex \in {"free", "https", "refresh"}
    /\ mutex = "https" <=> lpc["https"] = "locked"
    /\ mutex = "refresh" <=> refresh.pc = "store"
    /\ (Running /\ lpc["https"] = "fetch" /\ mutex # "free") => ENABLED RefreshStore
    /\ (Running /\ refresh.pc = "lock" /\ mutex # "free") => ENABLED HttpsSpawn
    /\ (Running /\ mutex = "free") =>
            /\ lpc["https"] = "fetch" => ENABLED HttpsLock
            /\ refresh.pc = "lock" => ENABLED RefreshLock

\* C15 (in every step): the holder's next step releases the lock.
C15_ReleasedByNextStep ==
    /\ (mutex = "https" /\ lpc'["https"] # lpc["https"]) => mutex' = "free"
    /\ (mutex = "refresh" /\ refresh'.pc # refresh.pc) => mutex' = "free"

\* C15: the lock on the cell is held only for the single read or replace
\* step and never across a suspension point, so no task blocks on it
\* indefinitely and there is no deadlock on it.
C15_LockNeverHeldAcrossSuspension ==
    [] C15_LockHeldOnlyAtReadOrStore /\ [][C15_ReleasedByNextStep]_vars

\* C15 witness: the accept loop waits for the lock while the refresh task is
\* at its store and an earlier connection's handshake is in progress.
C15_Witness ==
    /\ mutex = "refresh" /\ refresh.pc = "store"
    /\ lpc["https"] = "fetch"
    /\ \E i \in ConnIds : conns[i].st = "handshake"

(* ========================= the acceptor cell ========================== *)

\* An acceptor built by one complete successful load: the chain and the key
\* of one generation on disk, and both ALPN protocols in order.
Complete(a) ==
    /\ a.certs \in 1..MaxGen
    /\ a.key = a.certs
    /\ a.alpn = <<"h2", "http/1.1">>

\* C16 (in every state): from the moment the cell exists it holds a complete
\* acceptor, and so does every connection that fetched one.
C16_CellComplete ==
    /\ (lpc["https"] \in {"accept", "backoff", "fetch", "locked"} \/ refresh.pc # "unspawned")
            => Complete(cell)
    /\ \A i \in ConnIds : Fetched(i) => Complete(conns[i].acceptor)

\* C16 (in every step): whatever is put into the cell is complete, and a
\* replacement is the acceptor the refresh task had built before it took the lock.
C16_PublishStep ==
    cell' # cell =>
        /\ Complete(cell')
        /\ cell # NoAcceptor => (refresh.pc = "store" /\ refresh.ok /\ cell' = refresh.loaded)

\* C16: in every state the cell holds a fully built acceptor that came from
\* one complete successful load; an acceptor is built entirely before it is
\* published, so the accept loop never reads an empty, partly built or failed value.
C16_CellAlwaysFullyBuilt ==
    [] C16_CellComplete /\ [][C16_PublishStep]_vars

\* C16 witness: the cell was replaced by the acceptor of generation 2 and a
\* connection is handshaking with it.
C16_Witness ==
    /\ cellVer = 1
    /\ cell = [certs |-> 2, key |-> 2, alpn |-> <<"h2", "http/1.1">>]
    /\ \E i \in ConnIds : conns[i].st = "handshake" /\ conns[i].acceptor = cell

(* ================== handshakes across a replacement =================== *)

\* C17 as stated: a handshake uses the acceptor that was in the cell at the
\* moment its connection was accepted: the superseded one for a connection
\* accepted before the replacement, the cell's one otherwise.
C17_UsesAcceptorOfAcceptMoment ==
    \A i \in ConnIds :
        Fetched(i) =>
            conns[i].acceptor = IF cellVer > 0 /\ i <= refresh.connsAtStore
                                    THEN refresh.superseded
                                    ELSE cell

\* C17 amended (in every state): a handshake in progress holds a complete
\* acceptor and can proceed, whatever the cell holds by now.
C17_HandshakeHoldsUsableAcceptor ==
    \A i \in ConnIds :
        conns[i].st = "handshake" =>
            /\ Complete(conns[i].acceptor)
            /\ Running => ENABLED Handshake(i)

\* C17 amended (in every step): a connection gets its acceptor by the accept
\* loop's locked read of the cell, which comes after accept has returned; from
\* then on its acceptor never changes, and a replacement of the cell leaves
\* the connection as it was.
C17_AcceptorStep ==
    \A i \in ConnIds :
        /\ (conns[i].st = "accepted" /\ conns'[i].st # "accepted") =>
                /\ mutex = "https"
                /\ conns'[i].st = "handshake"
                /\ conns'[i].acceptor = cell
        /\ Fetched(i) =>
                /\ conns'[i].acceptor = conns[i].acceptor
                /\ cell' # cell => conns'[i] = conns[i]

\* C17 amended: a handshake uses, for the whole handshake, the acceptor the
\* accept loop read from the cell after the connection was accepted; a
\* replacement of the cell during the handshake neither aborts it nor
\* switches it to the new acceptor, and the superseded acceptor stays usable.
C17_HandshakeKeepsFetchedAcceptor ==
    [] C17_HandshakeHoldsUsableAcceptor /\ [][C17_AcceptorStep]_vars

\* C17 witness: the cell was replaced by generation 2 while a handshake that
\* had fetched generation 1 is still in progress.
C17_Witness ==
    /\ cellVer = 1 /\ cell.certs = 2
    /\ \E i \in ConnIds :
        /\ conns[i].st = "handshake"
        /\ conns[i].acceptor = refresh.superseded
        /\ conns[i].acceptor.certs = 1

(* ============================ the connector =========================== *)

\* C18: a call of the connector resolves the host once; when the lookup
\* fails, the call ends with ConnectorError::Dns, with no second lookup and
\* no TCP connection attempted.
C18_OneResolutionNoRetry ==
    LET c == connector IN
    /\ c.resolves <= 1
    /\ c.resolves = 1 <=> c.lookup # "none"
    /\ c.pc = "connect" => c.lookup = "ok"
    /\ c.result.kind \in {"Ok", "Tcp"} => c.lookup = "ok"
    /\ c.lookup = "err" =>
        /\ c.pc = "done"
        /\ c.result.kind = "Dns"
        /\ c.addresses = <<>> /\ c.attempts = <<>>
    /\ c.result.kind = "Dns" => c.lookup = "err"

\* C18 witness: the lookup of a Uri with a host failed and the call is over.
C18_Witness ==
    /\ connector.pc = "done" /\ connector.host = "up"
    /\ connector.lookup = "err" /\ connector.resolves = 1
    /\ connector.result.kind = "Dns"

\* C19: a call with a Uri that has no host ends with ConnectorError::NoHost
\* before anything else: no lookup and no TCP connection is attempted.
C19_NoHostBeforeAnyStep ==
    (connector.pc # "idle" /\ connector.uri.host = "") =>
        /\ connector.pc = "done"
        /\ connector.result.kind = "NoHost"
        /\ connector.resolves = 0 /\ connector.lookup = "none"
        /\ connector.addresses = <<>> /\ connector.attempts = <<>>

\* C19 witness: a call with a Uri that has a scheme and a port but no host
\* is over, with NoHost.
C19_Witness ==
    /\ connector.pc = "done"
    /\ connector.uri = [host |-> "", port |-> <<8080>>, scheme |-> "https"]
    /\ connector.result.kind = "NoHost"

\* The port the claim names for a Uri.
ClaimedPort(uri) ==
    IF uri.port # <<>> THEN uri.port[1]
    ELSE IF uri.scheme = "https" THEN 443 ELSE 80

\* C20: the port the connector connects to is the Uri's own port when it has
\* one, whatever the scheme; else 443 when the scheme is exactly "https";
\* else 80; and every resolved address of the call gets that port.
C20_PortFromUriThenScheme ==
    LET c == connector IN
    (c.pc # "idle" /\ c.uri.host # "") =>
        /\ c.port = ClaimedPort(c.uri)
        /\ Len(c.addresses) = Len(c.resolved)
        /\ \A k \in 1..Len(c.addresses) :
            c.addresses[k] = [ip |-> c.resolved[k], port |-> ClaimedPort(c.uri)]
        /\ \A k \in 1..Len(c.attempts) : c.attempts[k].port = ClaimedPort(c.uri)
        /\ c.result.kind = "Ok" => c.result.port = ClaimedPort(c.uri)

\* C20 witness: an https Uri with port 8080 resolved to two addresses; the
\* first attempt failed, the second connected, both on port 8080.
C20_Witness ==
    /\ connector.uri = [host |-> "up", port |-> <<8080>>, scheme |-> "https"]
    /\ Len(connector.attempts) = 2
    /\ connector.attempts[1].port = 8080 /\ ~connector.attempts[1].ok
    /\ connector.result.kind = "Ok" /\ connector.result.port = 8080

(* ================================ init ================================ *)

\* C21 (in every state): the default text is in a file only if init created
\* that file, and init reports success only for a file it created and wrote
\* in full; a file init found keeps the text it had.
C21_DefaultOnlyInCreatedFile ==
    /\ config.init = "exists" => config.exists
    /\ config.init \in {"ok", "write failed"} =>
            config.exists /\ config.base \in {"initial", "partial", "empty"}
    /\ config.init = "ok" => config.base = "initial"

\* C21 (in every step): when init runs on a file that exists it fails and
\* leaves the file as it was; when it reports success it has created the
\* file and written the default text; and the operator's own text is never
\* replaced.
C21_InitStep ==
    /\ (config.init = "none" /\ config'.init # "none") =>
            IF config.exists
                THEN /\ config'.init \in {"exists", "open failed"}
                     /\ config' = [config EXCEPT !.init = config'.init]
                ELSE config'.init = "ok" =>
                        (config'.exists /\ config'.base = "initial" /\ config'.edits = <<>>)
    /\ config.base = "other" => config'.base = "other"

\* C21: init never overwrites a configuration file that exists: it fails and
\* leaves the contents unchanged, and writes the default configuration only
\* into a file it has created itself.
C21_InitNeverOverwrites ==
    [] C21_DefaultOnlyInCreatedFile /\ [][C21_InitStep]_vars

\* C21 witness: init ran on the operator's own file and failed; serve then
\* read the operator's configuration from it.
C21_Witness ==
    /\ config.init = "exists" /\ config.base = "other"
    /\ config.pc = "read"
    /\ config.result = [ok |-> TRUE, err |-> "ok", http_port |-> 8080, https_port |-> 8443,
                         refresh |-> 3600]

====
